---- MODULE Spec2Model ----
(***************************************************************************)
(* Model of src/src/blockchain.js: class Blockchain, an in-memory chain of *)
(* hash-linked blocks with a timed ownership-verification handshake.       *)
(*                                                                         *)
(* JavaScript runs one job at a time: a handler runs without interruption  *)
(* until it returns or reaches an `await`.  Every action below is one such *)
(* uninterrupted run.  _addBlock awaits validateChain() before it assigns  *)
(* and pushes, so an append is two runs: the call (validation) and the     *)
(* resumption (assign fields, push, resolve).  Resumptions are queued in   *)
(* call order (the promise job queue is first-in first-out).               *)
(***************************************************************************)
EXTENDS Integers, Sequences, FiniteSets, TLC

VARIABLES
    chain,      \* this.chain: the array of blocks
    height,     \* this.height
    nowMs,      \* new Date().getTime(): the wall clock, in milliseconds
    pending,    \* _addBlock calls suspended at `await this.validateChain()`
    tampered,   \* the <<position, field>> pairs written from outside the class
    last        \* the run that has just happened: its call, inputs and outcome

vars == <<chain, height, nowMs, pending, tampered, last>>

\* ------------------------------------------------------------------ bounds
MaxChain == 3
MaxPending == 2

\* ------------------------------------------------------------- input sets
Addresses == {"A", "B"}
Stars == {"star1"}
\* Clock readings (ms).  In seconds: 1000, 1299, 1300, 1301, 1400, so that a
\* message stamped 1000 is 0, 299, 300, 301 and 400 seconds old.
ClockValues == {1000000, 1299999, 1300000, 1301000, 1400000}

\* ------------------------------------------------------------------ values
\* null / undefined hash
Null == <<>>

\* new Date().getTime().toString().slice(0,-3): the decimal digits of the
\* millisecond count without the last three, i.e. the whole seconds.  A string
\* of digits is represented by the number it spells.
TimeString(ms) == ms \div 1000

ClockSeconds == {TimeString(ms) : ms \in ClockValues}

\* SHA256(...).toString(): a collision-free digest, represented by its preimage.
SHA256(s) == <<"sha256", s>>

\* JSON.stringify(block): the block's own fields, in the order they are declared.
JSONstringify(b) == <<b.hash, b.height, b.body, b.time, b.previousBlockHash>>

\* Block bodies.  A field the object does not have is "undefined".
GenesisBody == [data |-> "Genesis Block", owner |-> "undefined", star |-> "undefined"]
\* (mutant) the owner is left out: new BlockClass.Block({star})
StarBodyNoOwner(address, star) == [data |-> "undefined", owner |-> "undefined", star |-> star]
StarBody(address, star) == [data |-> "undefined", owner |-> address, star |-> star]
Bodies == {GenesisBody} \cup {StarBody(a, s) : a \in Addresses, s \in Stars}

\* Buffer.from(JSON.stringify(data)).toString('hex'): the body as a block
\* stores it, and its decoding by block.getBData().
HexEncode(body) == <<"hex", body>>
GetBData(block) == block.body[2]
EncodedBodies == {HexEncode(b) : b \in Bodies}

\* new BlockClass.Block(data): a block not yet in the chain.
NewBlock(body) ==
    [hash |-> Null, height |-> 0, body |-> HexEncode(body), time |-> 0,
     previousBlockHash |-> Null]

\* Block.validate(): recompute the hash over the block's other fields and
\* compare it with the stored hash.
BlockValidate(b) == b.hash = SHA256(JSONstringify([b EXCEPT !.hash = Null]))

\* ---------------------------------------------------------------- messages
\* A message is the list of its colon-separated fields, message.split(':').
\* A field is a string of digits (num, with the number n it spells) or other
\* text (s).
Num(n) == [num |-> TRUE, n |-> n, s |-> ""]
Txt(s) == [num |-> FALSE, n |-> 0, s |-> s]

\* `${address}:${seconds}:starRegistry`
ChallengeMessage(address, ms) == <<Txt(address), Num(TimeString(ms)), Txt("starRegistry")>>

Stamps == {1000000}

WellFormedMessages == {ChallengeMessage(a, ms) : a \in Addresses, ms \in Stamps}

\* Messages without the three-field shape: no colon at all, a second field that
\* is not a number, and only two fields.
NoColon == <<Txt("nocolon")>>
NonNumeric == <<Txt("A"), Txt("abc"), Txt("starRegistry")>>
TwoFields == <<Txt("A"), Num(TimeString(1000000))>>
MalformedMessages == {NoColon, NonNumeric, TwoFields}

Messages == WellFormedMessages \cup MalformedMessages

\* parseInt(message.split(':')[1]): NaN when there is no second field or it
\* does not start with digits.
NaN == [nan |-> TRUE, n |-> 0]
Number(n) == [nan |-> FALSE, n |-> n]
ParseSecondField(message) ==
    IF Len(message) >= 2 /\ message[2].num THEN Number(message[2].n) ELSE NaN

\* a - b and a < k in JavaScript arithmetic: NaN propagates, and every
\* comparison with NaN is false.
Minus(a, b) == IF a.nan \/ b.nan THEN NaN ELSE Number(a.n - b.n)
LessThan(a, k) == ~a.nan /\ a.n < k

\* -------------------------------------------------------------- signatures
\* A well-formed signature is made by a signer over a message; anything else
\* makes bitcoinMessage.verify throw.
Sign(signer, message) == [wellformed |-> TRUE, signer |-> signer, message |-> message]
Garbage == [wellformed |-> FALSE, signer |-> "", message |-> <<>>]

\* The submitStar calls that are tried: each address with its own challenge,
\* signed by itself, by the other address, and with a broken signature; and
\* A with every malformed message, signed by itself and by B.
SignaturesOver(message) == {Sign(b, message) : b \in Addresses} \cup {Garbage}
SubmitStarInputs ==
    UNION {{<<a, ChallengeMessage(a, ms), sg, st>> :
                sg \in SignaturesOver(ChallengeMessage(a, ms)), st \in Stars} :
            a \in Addresses, ms \in Stamps}
    \cup
    {<<"A", m, Sign(b, m), st>> : m \in MalformedMessages, b \in Addresses, st \in Stars}

\* The calls tried while blocks are tampered with: each address with its own
\* challenge, signed by itself; and the clock readings then.
AuditInputs ==
    {<<a, ChallengeMessage(a, ms), Sign(a, ChallengeMessage(a, ms)), st>> :
        a \in Addresses, ms \in Stamps, st \in Stars}
AuditClockValues == {1000000, 1299999}

\* The calls tried while sealing is followed to its end: each address with its
\* own challenge, signed by itself or by the other address.
SealInputs ==
    UNION {{<<a, ChallengeMessage(a, ms), Sign(b, ChallengeMessage(a, ms)), st>> :
                b \in Addresses, st \in Stars} :
            a \in Addresses, ms \in Stamps}

\* bitcoinMessage.verify(message, address, signature): "true", "false" or "threw"
Verify(message, address, signature) ==
    IF ~signature.wellformed THEN "threw"
    ELSE IF signature.signer = address /\ signature.message = message THEN "true"
    ELSE "false"

\* ------------------------------------------------------------ the record `last`
NoBlock == [hash |-> Null, height |-> -1, body |-> HexEncode(GenesisBody), time |-> 0,
            previousBlockHash |-> Null]

\* The outcome of a run.  promise: the state of the promise the call returned
\* ("pending", "resolved", "rejected"); settler: whether a suspended
\* continuation exists that can still settle a pending promise; chainBefore and
\* heightBefore: this.chain and this.height when the run began.  The other
\* fields are the arguments of the call and what it resolved with: a block
\* (NoBlock for null), a number (value), a boolean (result), a list or a
\* message.
Idle(op) ==
    [op |-> op, caller |-> "", address |-> "", message |-> <<>>, signature |-> Garbage,
     star |-> "", at |-> 0, verify |-> "notcalled", promise |-> "none", settler |-> FALSE,
     error |-> "", block |-> NoBlock, value |-> 0, result |-> FALSE, seen |-> 0,
     hash |-> Null, list |-> <<>>, reply |-> <<>>, chainBefore |-> chain,
     heightBefore |-> height]

\* the 5 minutes of line 142
FiveMinutes == 60 * 5

\* ------------------------------------------------------------ validateChain
\* (mutant) only the newest block is validated
validateChainLastOnly(ch) == Len(ch) = 0 \/ BlockValidate(ch[Len(ch)])

\* block.validate() of every block; true iff none of the results is false.
validateChain(ch) == \A i \in 1..Len(ch) : BlockValidate(ch[i])

\* ---------------------------------------------------------------- _addBlock
\* (mutant) the height is taken from the counter: block.height = this.height + 1
AssignHeightFromCounter(block, ch) == [block EXCEPT !.height = height + 1]

\* block.height = this.chain.length
AssignHeight(block, ch) == [block EXCEPT !.height = Len(ch)]

\* (mutant) the link is set only from the third block on: if(this.chain.length > 1)
AssignPreviousBlockHashLate(block, ch) ==
    IF Len(ch) > 1 THEN [block EXCEPT !.previousBlockHash = ch[Len(ch)].hash] ELSE block

\* if(this.chain.length) block.previousBlockHash = this.chain[this.chain.length - 1].hash
AssignPreviousBlockHash(block, ch) ==
    IF Len(ch) # 0 THEN [block EXCEPT !.previousBlockHash = ch[Len(ch)].hash] ELSE block

\* block.hash = SHA256(JSON.stringify(block)).toString()
AssignHash(block) == [block EXCEPT !.hash = SHA256(JSONstringify(block))]

\* lines 79-85: the fields _addBlock assigns, in the order it assigns them
Seal(block, ch, ms) ==
    LET b1 == AssignHeight(block, ch)
        b2 == [b1 EXCEPT !.time = TimeString(ms)]
        b3 == AssignPreviousBlockHash(b2, ch)
    IN  AssignHash(b3)

\* (mutant) the block is put in front: this.chain.unshift(block)
PushFront(ch, block) == <<block>> \o ch

\* this.chain.push(block): the array afterwards
Push(ch, block) == Append(ch, block)

\* (mutant) the counter is left as it is: this.chain.push(block) alone
PushResultDropped(ch, block) == height

\* this.chain.push(block) returns the new length of the array
PushResult(ch, block) == Len(Append(ch, block))

\* (mutant) the result of the validation is not looked at
GateAlwaysPasses(chainIsValidated) == TRUE

\* if(!chainIsValidated) throw new Error("Chain corruption detected")
PassesGate(chainIsValidated) == chainIsValidated

\* (mutant) a new call resumes before the calls already suspended
AddBlockCallOvertaking(caller, block, args) ==
    pending' = <<[caller |-> caller, block |-> block, valid |-> validateChain(chain),
                  seen |-> Len(chain), address |-> args.address, message |-> args.message,
                  signature |-> args.signature, star |-> args.star]>> \o pending

\* (mutant) a message already waiting to be sealed is not taken again
AddBlockCallOnce(caller, block, args) ==
    IF \E i \in 1..Len(pending) : pending[i].message = args.message
    THEN UNCHANGED pending
    ELSE pending' = Append(pending,
            [caller |-> caller, block |-> block, valid |-> validateChain(chain),
             seen |-> Len(chain), address |-> args.address, message |-> args.message,
             signature |-> args.signature, star |-> args.star])

\* The part of _addBlock that runs when it is called: the promise executor up
\* to `await this.validateChain()`.  validateChain maps over the chain as it
\* is at the call, and the continuation is queued behind the earlier ones.
AddBlockCall(caller, block, args) ==
    pending' = Append(pending,
        [caller |-> caller, block |-> block, valid |-> validateChain(chain),
         seen |-> Len(chain), address |-> args.address, message |-> args.message,
         signature |-> args.signature, star |-> args.star])

\* The part of _addBlock after the await (lines 77-94), for the oldest
\* suspended call, and what its caller does with the outcome: submitStar
\* resolves with the block or rejects with the error, initializeChain logs
\* the error.  result records chainIsValidated.
AddBlockResume ==
    /\ pending # <<>>
    /\ LET call == Head(pending)
           base == [Idle("_addBlock") EXCEPT !.caller = call.caller, !.seen = call.seen,
                       !.address = call.address, !.message = call.message,
                       !.signature = call.signature, !.star = call.star,
                       !.at = TimeString(nowMs), !.result = call.valid]
       IN  IF PassesGate(call.valid)
           THEN LET block == Seal(call.block, chain, nowMs)
                IN  /\ chain' = Push(chain, block)
                    /\ height' = PushResult(chain, block)
                    /\ last' = [base EXCEPT !.promise = "resolved", !.block = block]
           ELSE /\ UNCHANGED <<chain, height>>
                /\ last' = [base EXCEPT !.promise = "rejected",
                                        !.error = "Chain corruption detected"]
    /\ pending' = Tail(pending)
    /\ UNCHANGED <<nowMs, tampered>>

\* The same resumption when a statement of the try block throws while the
\* block is sealed (lines 79-85): the catch of lines 91-94 logs the error and
\* rejects, nothing is pushed, and the caller handles the rejection:
\* initializeChain logs it (lines 42-44), submitStar rejects with it.
AddBlockThrows ==
    /\ pending # <<>>
    /\ LET call == Head(pending)
       IN  last' = [Idle("_addBlock") EXCEPT !.caller = call.caller, !.seen = call.seen,
                       !.address = call.address, !.message = call.message,
                       !.signature = call.signature, !.star = call.star,
                       !.at = TimeString(nowMs), !.result = call.valid,
                       !.promise = "rejected", !.error = "sealing threw"]
    /\ pending' = Tail(pending)
    /\ UNCHANGED <<chain, height, nowMs, tampered>>

\* --------------------------------------------------------------- submitStar
\* (mutant) the window includes its end: currentTime - starCreationTime <= (60*5)
IsFreshInclusive(currentTime, starCreationTime) ==
    LessThan(Minus(currentTime, starCreationTime), FiveMinutes + 1)

\* if((currentTime - starCreationTime < (60*5)))
IsFresh(currentTime, starCreationTime) ==
    LessThan(Minus(currentTime, starCreationTime), FiveMinutes)

\* (mutant) the result of verify is not looked at
IsVerifiedAlways(messageIsVerified) == TRUE

\* if(messageIsVerified), for the boolean that verify returned
IsVerified(messageIsVerified) == messageIsVerified = "true"

\* lines 134-159, up to the await of _addBlock.  When the message is fresh and
\* verify returns false, neither resolve nor reject is called and nothing is
\* awaited: the promise stays pending with nothing left to settle it.
SubmitStar(address, message, signature, star) ==
    LET starCreationTime == ParseSecondField(message)
        currentTime == Number(TimeString(nowMs))
        args == [address |-> address, message |-> message, signature |-> signature,
                 star |-> star]
        base == [Idle("submitStar") EXCEPT !.address = address, !.message = message,
                    !.signature = signature, !.star = star, !.at = TimeString(nowMs),
                    !.promise = "pending"]
    IN  /\ IF IsFresh(currentTime, starCreationTime)
           THEN LET messageIsVerified == Verify(message, address, signature)
                IN  IF messageIsVerified = "threw"
                    THEN /\ UNCHANGED pending
                         /\ last' = [base EXCEPT !.verify = "threw",
                                        !.promise = "rejected", !.error = "verify threw"]
                    ELSE IF IsVerified(messageIsVerified)
                    THEN /\ Len(pending) < MaxPending
                         /\ Len(chain) + Len(pending) < MaxChain
                         /\ AddBlockCall("submitStar", NewBlock(StarBody(address, star)), args)
                         /\ last' = [base EXCEPT !.verify = messageIsVerified,
                                        !.settler = TRUE]
                    ELSE /\ UNCHANGED pending
                         /\ last' = [base EXCEPT !.verify = messageIsVerified]
           ELSE /\ UNCHANGED pending
                /\ last' = [base EXCEPT !.promise = "rejected", !.error = "too late!"]
        /\ UNCHANGED <<chain, height, nowMs, tampered>>

\* ------------------------------------------------------------------ readers
\* resolve(this.height)
GetChainHeight ==
    /\ last' = [Idle("getChainHeight") EXCEPT !.promise = "resolved", !.value = height]
    /\ UNCHANGED <<chain, height, nowMs, pending, tampered>>

\* validateChain() called as an audit
ValidateChain ==
    /\ last' = [Idle("validateChain") EXCEPT !.promise = "resolved",
                   !.result = validateChain(chain)]
    /\ UNCHANGED <<chain, height, nowMs, pending, tampered>>

\* (mutant) the height is compared one off: p.height === height + 1
GetBlockByHeightOffByOne(ch, h) ==
    LET block == SelectSeq(ch, LAMBDA p : p.height = h + 1)
    IN  IF Len(block) # 0 THEN block[1] ELSE NoBlock

\* this.chain.filter(x => x.hash === hash), then block[0] or null
GetBlockByHashResult(ch, hash) ==
    LET block == SelectSeq(ch, LAMBDA x : x.hash = hash)
    IN  IF Len(block) # 0 THEN block[1] ELSE NoBlock

\* this.chain.filter(p => p.height === height), then block[0] or null
GetBlockByHeightResult(ch, h) ==
    LET block == SelectSeq(ch, LAMBDA p : p.height = h)
    IN  IF Len(block) # 0 THEN block[1] ELSE NoBlock

\* a hash that no block has
UnknownHash == SHA256(<<"unknown">>)

GetBlockByHash(hash) ==
    /\ last' = [Idle("getBlockByHash") EXCEPT !.promise = "resolved", !.hash = hash,
                   !.block = GetBlockByHashResult(chain, hash)]
    /\ UNCHANGED <<chain, height, nowMs, pending, tampered>>

GetBlockByHeight(h) ==
    /\ last' = [Idle("getBlockByHeight") EXCEPT !.promise = "resolved", !.value = h,
                   !.block = GetBlockByHeightResult(chain, h)]
    /\ UNCHANGED <<chain, height, nowMs, pending, tampered>>

\* what an async callback returns when it returns nothing
Undefined == [data |-> "undefined", owner |-> "undefined", star |-> "undefined"]

\* (mutant) the owner is not compared
StarsOfAnyOwner(ch, address) ==
    LET stars == [i \in 1..Len(ch) |->
                    IF ch[i].height # 0 THEN GetBData(ch[i]) ELSE Undefined]
    IN  SelectSeq(stars, LAMBDA x : x # Undefined)

\* lines 200-210: map every block to its decoded body when its height is
\* truthy and the body's owner is the address, to undefined otherwise; then
\* keep what is truthy.
StarsOf(ch, address) ==
    LET stars == [i \in 1..Len(ch) |->
                    IF ch[i].height # 0
                    THEN LET body == GetBData(ch[i])
                         IN  IF body.owner = address THEN body ELSE Undefined
                    ELSE Undefined]
    IN  SelectSeq(stars, LAMBDA x : x # Undefined)

GetStarsByWalletAddress(address) ==
    /\ last' = [Idle("getStarsByWalletAddress") EXCEPT !.promise = "resolved",
                   !.address = address, !.list = StarsOf(chain, address)]
    /\ UNCHANGED <<chain, height, nowMs, pending, tampered>>

\* ------------------------------------------ requestMessageOwnershipVerification
\* !address
IsEmpty(address) == address = ""

\* lines 107-113.  The executor is (resolve) => {...}: with an empty address
\* it evaluates reject(...), a name that is not defined there, so it throws a
\* ReferenceError and the promise is rejected with that error.
RequestMessageOwnershipVerification(address) ==
    /\ last' = IF IsEmpty(address)
               THEN [Idle("requestMessageOwnershipVerification") EXCEPT
                        !.address = address, !.at = TimeString(nowMs),
                        !.promise = "rejected",
                        !.error = "ReferenceError: reject is not defined"]
               ELSE [Idle("requestMessageOwnershipVerification") EXCEPT
                        !.address = address, !.at = TimeString(nowMs),
                        !.promise = "resolved",
                        !.reply = ChallengeMessage(address, nowMs)]
    /\ UNCHANGED <<chain, height, nowMs, pending, tampered>>

\* -------------------------------------------------------------------- clock
Tick(ms) ==
    /\ ms > nowMs
    /\ nowMs' = ms
    /\ last' = Idle("tick")
    /\ UNCHANGED <<chain, height, pending, tampered>>

\* --------------------------------------------------------------- tampering
\* this.chain is a public field and the blocks in it are plain mutable
\* objects (submitStar hands them to its caller): code outside the class can
\* overwrite one stored field of one sealed block.
SetField(b, f, v) ==
    CASE f = "height" -> [b EXCEPT !.height = v]
      [] f = "time" -> [b EXCEPT !.time = v]
      [] f = "body" -> [b EXCEPT !.body = v]
      [] f = "previousBlockHash" -> [b EXCEPT !.previousBlockHash = v]
      [] OTHER -> [b EXCEPT !.hash = v]

\* The other values a field can be given: another position, another second,
\* another body, and for the two hashes null or the hash of any block.
OtherValues(ch, i, f) ==
    LET b == ch[i]
        hashes == {Null} \cup {ch[j].hash : j \in 1..Len(ch)}
    IN  CASE f = "height" -> (0..Len(ch)) \ {b.height}
          [] f = "time" -> ClockSeconds \ {b.time}
          [] f = "body" -> EncodedBodies \ {b.body}
          [] f = "previousBlockHash" -> hashes \ {b.previousBlockHash}
          [] OTHER -> hashes \ {b.hash}

Fields == {"height", "time", "body", "previousBlockHash", "hash"}

\* One field of one sealed block is overwritten, once.
Tamper(i, f, v) ==
    /\ tampered = {}
    /\ chain' = [chain EXCEPT ![i] = SetField(chain[i], f, v)]
    /\ tampered' = {<<i, f>>}
    /\ last' = [Idle("tamper") EXCEPT !.value = i]
    /\ UNCHANGED <<height, nowMs, pending>>

\* Whoever overwrote a field of block i other than its hash then recomputes
\* that block's hash, so that the block is consistent with itself again.
Reseal(i) ==
    /\ \E f \in Fields \ {"hash"} : tampered = {<<i, f>>}
    /\ chain' = [chain EXCEPT ![i] =
                    [@ EXCEPT !.hash = SHA256(JSONstringify([chain[i] EXCEPT !.hash = Null]))]]
    /\ tampered' = tampered \cup {<<i, "hash">>}
    /\ last' = [Idle("reseal") EXCEPT !.value = i]
    /\ UNCHANGED <<height, nowMs, pending>>

\* ---------------------------------------------------------- specification
\* new Blockchain(): chain = [], height = -1, and initializeChain() has called
\* _addBlock(genesis), which is suspended at its await.
Init ==
    /\ chain = <<>>
    /\ height = -1
    /\ nowMs = 1000000
    /\ pending = <<[caller |-> "initializeChain", block |-> NewBlock(GenesisBody),
                    valid |-> validateChain(<<>>), seen |-> 0, address |-> "",
                    message |-> <<>>, signature |-> Garbage, star |-> ""]>>
    /\ tampered = {}
    /\ last = Idle("constructor")

\* The ledger used through its methods only.
Next ==
    \/ AddBlockResume
    \/ \E c \in SubmitStarInputs : SubmitStar(c[1], c[2], c[3], c[4])
    \/ GetChainHeight
    \/ ValidateChain
    \/ \E ms \in ClockValues : Tick(ms)

Spec == Init /\ [][Next]_vars

\* The ledger used through all of its methods, the readers and the challenge
\* request included, within the first five minutes.
NextRead ==
    \/ AddBlockResume
    \/ \E c \in SubmitStarInputs : SubmitStar(c[1], c[2], c[3], c[4])
    \/ GetChainHeight
    \/ ValidateChain
    \/ \E hash \in {chain[i].hash : i \in 1..Len(chain)} \cup {Null, UnknownHash} :
         GetBlockByHash(hash)
    \/ \E h \in -1..Len(chain) : GetBlockByHeight(h)
    \/ \E a \in Addresses : GetStarsByWalletAddress(a)
    \/ \E a \in Addresses \cup {""} : RequestMessageOwnershipVerification(a)
    \/ \E ms \in AuditClockValues : Tick(ms)

SpecRead == Init /\ [][NextRead]_vars

\* Submissions and block lookups only, with the promise job queue drained: a
\* suspended _addBlock call is resumed sooner or later.
NextSeal ==
    \/ AddBlockResume
    \/ \E c \in SealInputs : SubmitStar(c[1], c[2], c[3], c[4])
    \/ \E hash \in {chain[i].hash : i \in 1..Len(chain)} \cup {Null, UnknownHash} :
          GetBlockByHash(hash)
    \/ \E h \in -1..Len(chain) : GetBlockByHeight(h)
    \/ \E ms \in AuditClockValues : Tick(ms)

SpecSeal == Init /\ [][NextSeal]_vars /\ WF_vars(AddBlockResume)

\* The ledger when sealing a block may throw.
NextFault ==
    \/ AddBlockResume
    \/ AddBlockThrows
    \/ \E c \in SealInputs : SubmitStar(c[1], c[2], c[3], c[4])
    \/ GetChainHeight
    \/ \E ms \in AuditClockValues : Tick(ms)

SpecFault == Init /\ [][NextFault]_vars

\* The ledger used through its methods while sealed blocks are also written
\* from outside, as an audit has to expect.
NextAudit ==
    \/ AddBlockResume
    \/ \E c \in AuditInputs : SubmitStar(c[1], c[2], c[3], c[4])
    \/ ValidateChain
    \/ \E ms \in AuditClockValues : Tick(ms)
    \/ \E i \in 1..Len(chain), f \in Fields :
         \E v \in OtherValues(chain, i, f) : Tamper(i, f, v)
    \/ \E i \in 1..Len(chain) : Reseal(i)

SpecAudit == Init /\ [][NextAudit]_vars

\* ================================================================== claims
\* What the claims speak of, computed from the inputs of the call itself.

\* the three-field shape address:timestamp:starRegistry
WellFormed(message) ==
    /\ Len(message) = 3
    /\ ~message[1].num
    /\ message[2].num
    /\ message[3] = Txt("starRegistry")

\* current seconds minus the embedded timestamp, for a well-formed message
Elapsed(call) == call.at - call.message[2].n

SignatureFails(call) == Verify(call.message, call.address, call.signature) = "false"

NothingAppended == chain = last.chainBefore /\ height = last.heightBefore /\ ~last.settler

\* the append that has just resumed had been overtaken: another block was
\* pushed between its validation and its push
Overlapped == last.op = "_addBlock" /\ last.promise = "resolved"
                /\ last.seen < Len(last.chainBefore)

LinkageIntact(ch) ==
    \A i \in 1..Len(ch) :
        IF i = 1 THEN ch[i].previousBlockHash = Null
                 ELSE ch[i].previousBlockHash = ch[i-1].hash

\* C1: after any number of successful appends, sequential or overlapping, the
\* block at chain position i (counted from 0) has height i: no gap, no repeat.
C1_HeightsAreChainPositions == \A i \in 1..Len(chain) : chain[i].height = i - 1

C1_Witness == Len(chain) >= 3 /\ Overlapped /\ last.block.height = 2

\* C2: every block at height h >= 1 has previousBlockHash equal to the hash of
\* the block at height h-1, and the block at height 0 has none.
C2_LinkageHolds == LinkageIntact(chain)

C2_Witness ==
    /\ Len(chain) >= 3
    /\ Overlapped
    /\ last.block.previousBlockHash = chain[Len(chain) - 1].hash
    /\ chain[Len(chain) - 1].hash # Null

\* C3: the height that getChainHeight reports is always the chain's length
\* minus 1 (0 with the genesis block only, 1 after one star).
C3_HeightIsLengthMinusOne ==
    /\ height = Len(chain) - 1
    /\ last.op = "getChainHeight" => last.value = Len(chain) - 1

\* C4: a submitStar call with a fresh message (elapsed < 300 s) whose signature
\* fails verification ends with its promise rejected; it is not left pending.
C4_InvalidSignatureIsRejected ==
    (/\ last.op = "submitStar"
     /\ WellFormed(last.message)
     /\ Elapsed(last) < 300
     /\ SignatureFails(last))
    => last.promise = "rejected"

\* C5: a submitStar call whose signature fails verification appends nothing:
\* chain and height are as before the call, no append is left waiting, and
\* every star block that is appended comes from a call whose signature verified.
C5_InvalidSignatureAppendsNothing ==
    /\ (last.op = "submitStar" /\ SignatureFails(last)) => NothingAppended
    /\ (last.op = "_addBlock" /\ last.caller = "submitStar") => ~SignatureFails(last)

C5_Witness ==
    /\ last.op = "submitStar"
    /\ SignatureFails(last)
    /\ WellFormed(last.message)
    /\ Elapsed(last) < 300
    /\ Len(chain) >= 1
    /\ NothingAppended

\* C6: for a well-formed message, elapsed >= 300 s fails with "too late!" and
\* leaves chain and height unchanged without verifying the signature;
\* elapsed < 300 s proceeds to signature verification.
C6_FreshnessWindow ==
    (last.op = "submitStar" /\ WellFormed(last.message)) =>
        IF Elapsed(last) >= 300
        THEN /\ last.promise = "rejected"
             /\ last.error = "too late!"
             /\ last.verify = "notcalled"
             /\ NothingAppended
        ELSE last.verify # "notcalled"

C6_Witness ==
    /\ last.op = "submitStar"
    /\ WellFormed(last.message)
    /\ Elapsed(last) = 300
    /\ last.error = "too late!"
    /\ Len(chain) >= 1

\* C7: a submitStar call whose message does not have the three-field shape
\* fails with an error other than the one for an expired message, and appends
\* nothing.
C7_MalformedMessageFailsDistinctly ==
    (last.op = "submitStar" /\ ~WellFormed(last.message)) =>
        /\ last.promise = "rejected"
        /\ last.error # "too late!"
        /\ NothingAppended

\* C8: appends do not interleave: while one _addBlock call is between its
\* validation of the chain and its push, no other call validates or pushes, so
\* a call pushes onto the very chain it validated.
C8_AppendsAreSerialized ==
    /\ Len(pending) <= 1
    /\ (last.op = "_addBlock" /\ last.promise = "resolved")
          => last.seen = Len(last.chainBefore)

\* C9: validateChain returns false whenever the linkage is broken, also when
\* every block passes its own hash check.
C9_ValidateChainChecksLinkage ==
    (last.op = "validateChain" /\ ~LinkageIntact(chain)) => ~last.result

C11_CorruptChainRejectsAppend ==
    (last.op = "_addBlock" /\ ~last.result) =>
        /\ last.promise = "rejected"
        /\ last.error = "Chain corruption detected"
        /\ last.block = NoBlock
        /\ chain = last.chainBefore
        /\ height = last.heightBefore

C11_Witness ==
    /\ last.op = "_addBlock"
    /\ last.caller = "submitStar"
    /\ ~last.result
    /\ last.promise = "rejected"
    /\ Len(chain) >= 1

Readers == {"getChainHeight", "getBlockByHash", "getBlockByHeight",
            "getStarsByWalletAddress", "validateChain"}

\* every field of the block at position i has been assigned: its height, its
\* time, its link (from the second block on) and, over all of these, its hash
FullyAssigned(ch, i) ==
    /\ ch[i].height = i - 1
    /\ ch[i].time \in ClockSeconds
    /\ i > 1 => ch[i].previousBlockHash # Null
    /\ ch[i].hash # Null
    /\ ch[i].hash = SHA256(JSONstringify([ch[i] EXCEPT !.hash = Null]))

C13_GenesisIsFirst ==
    /\ chain # <<>> =>
          /\ GetBData(chain[1]) = GenesisBody
          /\ chain[1].height = 0
    /\ (last.op = "getChainHeight" /\ chain # <<>>) => last.value >= 0
    /\ (last.op = "_addBlock" /\ last.caller = "submitStar" /\ last.promise = "resolved")
          => last.block.height >= 1

C13_Witness ==
    /\ last.op = "_addBlock"
    /\ last.caller = "submitStar"
    /\ last.seen = 0
    /\ last.promise = "resolved"
    /\ last.block.height = 1
    /\ GetBData(chain[1]) = GenesisBody

\* the decoded bodies of the blocks at height >= 1, from position i on, whose
\* owner is the address, in chain order
RECURSIVE OwnedFrom(_, _, _)
OwnedFrom(ch, address, i) ==
    IF i > Len(ch) THEN <<>>
    ELSE (IF ch[i].height >= 1 /\ GetBData(ch[i]).owner = address
          THEN <<GetBData(ch[i])>> ELSE <<>>) \o OwnedFrom(ch, address, i + 1)

C15_RequestMessage ==
    last.op = "requestMessageOwnershipVerification" =>
        /\ IF last.address = ""
           THEN /\ last.promise = "rejected"
                /\ last.error = "Not a valid address"
                /\ last.reply = <<>>
           ELSE /\ last.promise = "resolved"
                /\ last.reply = <<Txt(last.address), Num(last.at), Txt("starRegistry")>>
        /\ chain = last.chainBefore
        /\ height = last.heightBefore

IsPrefix(s, t) == Len(s) <= Len(t) /\ \A i \in 1..Len(s) : s[i] = t[i]

\* C16: the ledger is append-only: whatever runs, the blocks that were in the
\* chain are still there, at the same positions and with the same fields; only
\* a successful _addBlock changes the chain or the height counter, and the
\* readers change neither.
C16_AppendOnly ==
    /\ IsPrefix(last.chainBefore, chain)
    /\ (chain # last.chainBefore \/ height # last.heightBefore)
          => (last.op = "_addBlock" /\ last.promise = "resolved"
                /\ Len(chain) = Len(last.chainBefore) + 1)
    /\ last.op \in Readers => (chain = last.chainBefore /\ height = last.heightBefore)

C16_Witness ==
    /\ last.op = "_addBlock"
    /\ last.promise = "resolved"
    /\ Len(last.chainBefore) = 2
    /\ chain = Append(last.chainBefore, last.block)

ValidSubmission(call) ==
    /\ WellFormed(call.message)
    /\ Elapsed(call) < 300
    /\ Verify(call.message, call.address, call.signature) = "true"

\* the body {owner: address, star: payload}
OwnedStar(address, star) == [data |-> "undefined", owner |-> address, star |-> star]

C17_Safety ==
    /\ (last.op = "submitStar" /\ ValidSubmission(last)) =>
          /\ last.promise = "pending"
          /\ last.settler
          /\ pending # <<>>
          /\ LET call == pending[Len(pending)]
             IN  /\ call.address = last.address
                 /\ call.star = last.star
                 /\ call.valid
    /\ (last.op = "_addBlock" /\ last.caller = "submitStar") =>
          /\ last.promise = "resolved"
          /\ chain = Append(last.chainBefore, last.block)
          /\ GetBData(last.block) = OwnedStar(last.address, last.star)
          /\ last.block.height = Len(last.chainBefore)
    /\ (last.op = "getBlockByHeight" /\ last.value \in 0..(Len(chain) - 1))
          => last.block = chain[last.value + 1]
    /\ (last.op = "getBlockByHash" /\ \E i \in 1..Len(chain) : chain[i].hash = last.hash)
          => (last.block \in {chain[i] : i \in 1..Len(chain)} /\ last.block.hash = last.hash)

\* C17: a submitStar call with a fresh message and a valid signature, on a
\* valid chain, appends exactly one block with body {owner, star} and resolves
\* with it; every call accepted is sealed sooner or later; and a sealed block
\* is what getBlockByHeight returns for its height and getBlockByHash for its
\* hash.
C17_ValidSubmissionIsSealed ==
    /\ []C17_Safety
    /\ \A n \in 1..MaxChain :
          (Len(chain) + Len(pending) >= n) ~> (Len(chain) >= n)

C17_Witness ==
    /\ last.op = "getBlockByHeight"
    /\ last.value = 2
    /\ Len(chain) = 3
    /\ last.block = chain[3]
    /\ GetBData(last.block) = OwnedStar("B", "star1")
    /\ last.block.hash # Null

\* The genesis call has ended and left no block: sealing it failed.
GenesisFailed ==
    /\ chain = <<>>
    /\ \A i \in 1..Len(pending) : pending[i].caller # "initializeChain"

\* C18: when sealing the genesis block fails, construction is aborted: the
\* ledger serves no call in the empty state with height -1.
C18_FailedGenesisAborts ==
    (GenesisFailed /\ height = -1) => last.op = "_addBlock"

WithHash(x) == {i \in 1..Len(chain) : chain[i].hash = x}
WithHeight(h) == {i \in 1..Len(chain) : chain[i].height = h}

\* C19: getBlockByHash(x) resolves with the one block whose hash is x and
\* getBlockByHeight(h) with the block whose height field is h, which is the
\* block at position h for 0 <= h < length; when no block matches each
\* resolves with null, never rejects.
C19_LookupsFindOrNull ==
    /\ last.op = "getBlockByHash" =>
          /\ last.promise = "resolved"
          /\ Cardinality(WithHash(last.hash)) <= 1
          /\ \A i \in WithHash(last.hash) : last.block = chain[i]
          /\ WithHash(last.hash) = {} => last.block = NoBlock
    /\ last.op = "getBlockByHeight" =>
          /\ last.promise = "resolved"
          /\ Cardinality(WithHeight(last.value)) <= 1
          /\ \A i \in WithHeight(last.value) : last.block = chain[i]
          /\ last.value \in 0..(Len(chain) - 1) => last.block = chain[last.value + 1]
          /\ last.value \notin 0..(Len(chain) - 1) => last.block = NoBlock

C19_Witness ==
    /\ last.op = "getBlockByHash"
    /\ Len(chain) = 3
    /\ last.hash = chain[2].hash
    /\ last.block = chain[2]
    /\ last.block # NoBlock

\* a call whose message carries a readable timestamp less than 300 s old and
\* whose signature verifies (the third field of the message is not looked at)
FreshAndSigned(call) ==
    /\ Len(call.message) >= 2
    /\ call.message[2].num
    /\ call.at - call.message[2].n < 300
    /\ Verify(call.message, call.address, call.signature) = "true"

\* the blocks after genesis owned by an address, and the suspended calls for it
OwnedBlocks(ch, a) == {i \in 2..Len(ch) : GetBData(ch[i]).owner = a}
WaitingCalls(pend, a) ==
    {i \in 1..Len(pend) : pend[i].caller = "submitStar" /\ pend[i].address = a}
Committed(ch, pend, a) == Cardinality(OwnedBlocks(ch, a)) + Cardinality(WaitingCalls(pend, a))

\* C20: a challenge message is not used up.  Every submitStar call with a
\* fresh message and a valid signature adds one to the blocks of its owner that
\* are sealed or waiting to be sealed, whatever was submitted before; the
\* resumption of such a call moves one from waiting to sealed; and no other
\* step changes either number.
C20_MessageIsReusable ==
    [][\A a \in Addresses :
          /\ Committed(chain', pending', a) = Committed(chain, pending, a)
                + (IF last'.op = "submitStar" /\ FreshAndSigned(last') /\ last'.address = a
                   THEN 1 ELSE 0)
          /\ Cardinality(OwnedBlocks(chain', a)) = Cardinality(OwnedBlocks(chain, a))
                + (IF last'.op = "_addBlock" /\ last'.caller = "submitStar"
                      /\ last'.address = a
                   THEN 1 ELSE 0)]_vars

C20_Witness ==
    /\ last.op = "_addBlock"
    /\ last.caller = "submitStar"
    /\ last.promise = "resolved"
    /\ Len(chain) = 3
    /\ GetBData(chain[2]).owner = last.address
    /\ GetBData(chain[3]).owner = last.address
    /\ chain[2] # chain[3]

====
